---- MODULE Spec2Model ----
(***************************************************************************)
(* Model of Arter_i_avverkning.py: species observations crossed with       *)
(* forestry logging polygons.                                              *)
(*                                                                         *)
(* The pipeline of __main__ is load_observations -> load_filtered_logging  *)
(* -> run_spatial_analysis -> describe_and_save.  Each stage is checked    *)
(* under a specification of its own, whose Init draws the stage's inputs   *)
(* (files on disk, caches, the frames handed over by the previous stage)   *)
(* from bounded sets:                                                      *)
(*   SpecObs    load_observations                                          *)
(*   SpecLog    load_filtered_logging, called up to MaxCalls times         *)
(*   SpecMatch  run_spatial_analysis followed by describe_and_save         *)
(*                                                                         *)
(* Data frames are sequences of row records.  Geometry is planar with all  *)
(* observation points on the line Nord = 0 and every logging polygon an    *)
(* axis-parallel rectangle [lo, hi] x [-1, 1]; for this family "within",   *)
(* "intersects", buffer and convex hull reduce exactly to the interval     *)
(* computations below.  Only the year of a date is tracked.                *)
(***************************************************************************)
EXTENDS Integers, Sequences, FiniteSets, TLC

VARIABLES
    pc,            \* position of the stage under check
    obs_files,     \* the *.xlsx files of cfg["input_dir"]
    cache_obs,     \* the file cfg["cache_obs"]
    gdf_obs,       \* the observation frame (return value of load_observations)
    log,           \* console messages printed so far
    n_read,        \* number of pd.read_excel calls made
    layer_src,     \* the .gpkg source of each layer
    cache_layers,  \* the files cfg["cache_layers"][key]
    cache_writes,  \* number of gdf.to_parquet(cache_path) calls per layer
    logging_data,  \* the polygon frame of each layer
    bbox,          \* argument of the last load_filtered_logging call
    start_year,    \* argument of the last load_filtered_logging call
    from_cache,    \* per layer: the last call took the cache branch
    n_calls,       \* number of load_filtered_logging calls made
    results,       \* return value of run_spatial_analysis
    report,        \* per-layer statistics printed by describe_and_save
    printed,       \* layers whose statistics block was printed completely
    output_file    \* TRUE once the Excel export has been written

vars == <<pc, obs_files, cache_obs, gdf_obs, log, n_read, layer_src,
          cache_layers, cache_writes, logging_data, bbox, start_year,
          from_cache, n_calls, results, report, printed, output_file>>

obsVars == <<obs_files, cache_obs, log, n_read>>
logVars == <<layer_src, cache_layers, cache_writes, bbox, start_year,
             from_cache, n_calls>>
matchVars == <<results, report, printed, output_file>>

(***************************************************************************)
(* Bounds of the model.                                                    *)
(***************************************************************************)
MaxFiles == 2
MaxRows == 2
MaxSrcRows == 2
MaxCalls == 2
MaxObs == 2
MaxPolys == 3

(***************************************************************************)
(* Program constants.                                                      *)
(***************************************************************************)
NOGGRANNHET_MAX == 50
BUFFER == 50

Layers == {"utford", "anmald"}
LayerOrder == <<"utford", "anmald">>

(***************************************************************************)
(* Cells.  A spreadsheet cell is a number, a text that reads as a number,  *)
(* any other text, or empty; a numeric column holds numbers or NaN.        *)
(***************************************************************************)
Num(n) == [t |-> "num", v |-> n]
NumText(n) == [t |-> "numtext", v |-> n]
Text == [t |-> "text", v |-> 0]
Empty == [t |-> "empty", v |-> 0]
NaN == [t |-> "nan", v |-> 0]

\* pd.to_numeric(col, errors='coerce')
to_numeric(c) == IF c.t \in {"num", "numtext"} THEN Num(c.v) ELSE NaN

\* col <= bound, elementwise: a comparison with NaN is False
Le(c, bound) == c.t = "num" /\ c.v <= bound

RECURSIVE Concat(_)
Concat(ss) == IF ss = <<>> THEN <<>> ELSE Head(ss) \o Concat(Tail(ss))

Range(s) == {s[i] : i \in 1..Len(s)}

\* The subsets of S with at most k elements.
RECURSIVE SubsetsUpTo(_, _)
SubsetsUpTo(S, k) ==
    IF k = 0 THEN {{}}
    ELSE LET smaller == SubsetsUpTo(S, k - 1)
         IN  smaller \cup {T \cup {x} : T \in smaller, x \in S}

\* The rows of the catalogue picked by S, in catalogue order.
RECURSIVE Pick(_, _)
Pick(cat, S) ==
    IF cat = <<>> THEN <<>>
    ELSE LET rest == Pick(SubSeq(cat, 1, Len(cat) - 1), S)
         IN  IF Len(cat) \in S THEN Append(rest, cat[Len(cat)]) ELSE rest

NoFile == [exists |-> FALSE, data |-> <<>>]
File(d) == [exists |-> TRUE, data |-> d]

(***************************************************************************)
(* load_observations                                                       *)
(***************************************************************************)
\* Raw rows a spreadsheet may hold: Ost, Nord, Noggrannhet.
RowCatalogue ==
    << [Ost |-> Num(0),       Nord |-> Num(0), Noggrannhet |-> Num(10)],
       [Ost |-> Num(30),      Nord |-> Num(0), Noggrannhet |-> Num(NOGGRANNHET_MAX)],
       [Ost |-> Num(60),      Nord |-> Num(0), Noggrannhet |-> Num(NOGGRANNHET_MAX + 1)],
       [Ost |-> NumText(120), Nord |-> Num(0), Noggrannhet |-> NumText(60)],
       [Ost |-> Num(150),     Nord |-> Num(0), Noggrannhet |-> Empty],
       [Ost |-> Num(0),       Nord |-> Num(0), Noggrannhet |-> Text],
       [Ost |-> Empty,        Nord |-> Num(0), Noggrannhet |-> Num(10)],
       [Ost |-> Num(30),      Nord |-> Text,   Noggrannhet |-> Empty] >>

\* A spreadsheet: whether it has the Noggrannhet column, and its rows.
Workbook(hasAcc, S) ==
    [has_Noggrannhet |-> hasAcc, rows |-> Pick(RowCatalogue, S)]

\* Lines 65-88: one file read, coerced, filtered and tagged.  k is the
\* file (its name, the column 'Källa'); row is the row's place in the file.
CleanFile(f, k) ==
    LET n == Len(f.rows)
        coerced == [i \in 1..n |->
                      [Ost |-> to_numeric(f.rows[i].Ost),
                       Nord |-> to_numeric(f.rows[i].Nord),
                       Noggrannhet |-> IF f.has_Noggrannhet
                                       THEN to_numeric(f.rows[i].Noggrannhet)
                                       ELSE NaN,
                       Kalla |-> k,
                       row |-> i]]
        accurate(r) == f.has_Noggrannhet => Le(r.Noggrannhet, NOGGRANNHET_MAX)
        located(r) == r.Ost # NaN /\ r.Nord # NaN
    IN  SelectSeq(coerced, LAMBDA r : accurate(r) /\ located(r))

\* Lines 62-100: all files cleaned, concatenated, geometry built.
BuildObservations(files) ==
    LET combined == Concat([k \in 1..Len(files) |-> CleanFile(files[k], k)])
    IN  [i \in 1..Len(combined) |->
            [Ost |-> combined[i].Ost.v,
             Nord |-> combined[i].Nord.v,
             Noggrannhet |-> combined[i].Noggrannhet,
             Kalla |-> combined[i].Kalla,
             row |-> combined[i].row,
             geometry |-> <<combined[i].Ost.v, combined[i].Nord.v>>]]

\* Faulty variant of LoadObsFromCache: a cache that differs from what the
\* input files give is rebuilt from them.
LoadObsFromCacheIfFresh ==
    /\ pc = "start"
    /\ cache_obs.exists
    /\ LET fresh == BuildObservations(obs_files)
           stale == obs_files # <<>> /\ cache_obs.data # fresh
       IN  /\ gdf_obs' = IF stale THEN fresh ELSE cache_obs.data
           /\ cache_obs' = IF stale THEN File(fresh) ELSE cache_obs
           /\ n_read' = IF stale THEN n_read + Len(obs_files) ELSE n_read
    /\ log' = Append(log, "Cache")
    /\ pc' = "returned"
    /\ UNCHANGED obs_files

\* Lines 53-55: the cache exists and is returned as it is.
LoadObsFromCache ==
    /\ pc = "start"
    /\ cache_obs.exists
    /\ gdf_obs' = cache_obs.data
    /\ log' = Append(log, "Cache")
    /\ pc' = "returned"
    /\ UNCHANGED <<obs_files, cache_obs, n_read>>

\* Lines 57-60: no cache and no input file: sys.exit().
LoadObsNoFiles ==
    /\ pc = "start"
    /\ ~cache_obs.exists
    /\ obs_files = <<>>
    /\ log' = log \o <<"Inlasning", "Fel">>
    /\ pc' = "exited"
    /\ UNCHANGED <<obs_files, cache_obs, gdf_obs, n_read>>

\* Faulty variant of LoadObsParse: the exception of to_parquet is not caught.
LoadObsParseWriteFatal ==
    /\ pc = "start"
    /\ ~cache_obs.exists
    /\ obs_files # <<>>
    /\ \E ok \in BOOLEAN :
         LET gdf == BuildObservations(obs_files)
         IN  /\ n_read' = n_read + Len(obs_files)
             /\ cache_obs' = IF ok THEN File(gdf) ELSE cache_obs
             /\ log' = log \o <<"Inlasning",
                                IF ok THEN "Cache skapad" ELSE "Varning">>
             /\ gdf_obs' = IF ok THEN gdf ELSE gdf_obs
             /\ pc' = IF ok THEN "returned" ELSE "exited"
    /\ UNCHANGED obs_files

\* Lines 57-108: no cache, files parsed; to_parquet succeeds (ok) or raises.
LoadObsParse ==
    /\ pc = "start"
    /\ ~cache_obs.exists
    /\ obs_files # <<>>
    /\ \E ok \in BOOLEAN :
         LET gdf == BuildObservations(obs_files)
         IN  /\ n_read' = n_read + Len(obs_files)
             /\ cache_obs' = IF ok THEN File(gdf) ELSE cache_obs
             /\ log' = log \o <<"Inlasning",
                                IF ok THEN "Cache skapad" ELSE "Varning">>
             /\ gdf_obs' = gdf
             /\ pc' = "returned"
    /\ UNCHANGED obs_files

\* The input directories SpecObs starts from: up to MaxFiles spreadsheets
\* holding up to MaxRows rows of the catalogue between them.
InputDirs ==
    UNION {
      { [k \in 1..n |-> Workbook(cols[k], {j \in 1..Len(RowCatalogue) : <<k, j>> \in T})] :
          cols \in [1..n -> BOOLEAN],
          T \in SubsetsUpTo((1..n) \X (1..Len(RowCatalogue)), MaxRows) } :
      n \in 0..MaxFiles }

\* The caches an earlier run may have left behind.
EarlierCaches ==
    {NoFile} \cup {File(BuildObservations(<<Workbook(TRUE, S)>>)) :
                      S \in {{}, {1}, {1, 2}}}

IdleLog ==
    /\ layer_src = <<>> /\ cache_layers = <<>> /\ cache_writes = <<>>
    /\ bbox = <<>> /\ start_year = 0 /\ from_cache = <<>> /\ n_calls = 0

IdleMatch ==
    /\ results = <<>> /\ report = <<>> /\ printed = {} /\ output_file = FALSE

InitObs ==
    /\ pc = "start"
    /\ obs_files \in InputDirs
    /\ cache_obs \in EarlierCaches
    /\ gdf_obs = <<>>
    /\ log = <<>>
    /\ n_read = 0
    /\ logging_data = <<>>
    /\ IdleLog
    /\ IdleMatch

NextObs ==
    \/ (LoadObsFromCache /\ UNCHANGED <<logVars, matchVars, logging_data>>)
    \/ (LoadObsNoFiles /\ UNCHANGED <<logVars, matchVars, logging_data>>)
    \/ (LoadObsParse /\ UNCHANGED <<logVars, matchVars, logging_data>>)

SpecObs == InitObs /\ [][NextObs]_vars

(***************************************************************************)
(* load_filtered_logging                                                   *)
(*                                                                         *)
(* A polygon frame is [columns, rows]; a row is [fid, lo, hi, date] with   *)
(* date the cell of the layer's date column (NoColumn when the frame has   *)
(* no such column).  The .gpkg sources are in cfg["crs"] already, so that  *)
(* the reprojection of lines 136-137 is not taken.                         *)
(***************************************************************************)
DateText(y) == [t |-> "datetext", v |-> y]
Timestamp(y) == [t |-> "ts", v |-> y]
NaT == [t |-> "nat", v |-> 0]
NoColumn == [t |-> "absent", v |-> 0]

\* pd.to_datetime(col, errors='coerce')
to_datetime(c) == IF c.t \in {"datetext", "ts"} THEN Timestamp(c.v) ELSE NaT

\* col.dt.year >= year, elementwise: a comparison with NaT's year is False
YearGe(c, year) == c.t = "ts" /\ c.v >= year

\* Line 139
date_col(key) == IF key = "utford" THEN "Avvdatum" ELSE "Inkomdatum"

\* Features a .gpkg source may hold.
FeatureCatalogue ==
    << [fid |-> 1, lo |-> 0,  hi |-> 60,  date |-> DateText(2018)],
       [fid |-> 2, lo |-> 0,  hi |-> 90,  date |-> DateText(2019)],
       [fid |-> 3, lo |-> 90, hi |-> 150, date |-> DateText(2019)],
       [fid |-> 4, lo |-> 90, hi |-> 150, date |-> DateText(2018)],
       [fid |-> 5, lo |-> 0,  hi |-> 60,  date |-> Text],
       [fid |-> 6, lo |-> 90, hi |-> 150, date |-> Empty] >>

BBoxes == {<<0, 0, 30, 0>>, <<0, 0, 150, 0>>}
StartYears == {2018, 2019}

\* The polygon [lo, hi] x [-1, 1] intersects the box (minx, miny, maxx, maxy).
IntersectsBox(r, bb) ==
    /\ r.lo <= bb[3] /\ r.hi >= bb[1]
    /\ -1 <= bb[4] /\ 1 >= bb[2]

\* A .gpkg source of layer key: with or without the layer's date column.
Source(key, hasDate, S) ==
    LET picked == Pick(FeatureCatalogue, S)
    IN  [columns |-> IF hasDate THEN {"geometry", date_col(key)} ELSE {"geometry"},
         rows |-> [i \in 1..Len(picked) |->
                     IF hasDate THEN picked[i]
                     ELSE [picked[i] EXCEPT !.date = NoColumn]]]

EmptyFrame == [columns |-> {"geometry"}, rows |-> <<>>]

\* Line 135: gpd.read_file(path, bbox=bbox)
read_file(src, bb) ==
    [src EXCEPT !.rows = SelectSeq(src.rows, LAMBDA r : IntersectsBox(r, bb))]

\* Faulty variant of YearFilter: rows of the start year itself are dropped.
YearFilterAfter(key, gdf, year) ==
    IF date_col(key) \in gdf.columns
    THEN LET parsed == [i \in 1..Len(gdf.rows) |->
                          [gdf.rows[i] EXCEPT !.date = to_datetime(gdf.rows[i].date)]]
         IN  [gdf EXCEPT !.rows = SelectSeq(parsed, LAMBDA r : YearGe(r.date, year + 1))]
    ELSE gdf

\* Lines 141-145: the date column parsed, rows from year on kept.
YearFilter(key, gdf, year) ==
    IF date_col(key) \in gdf.columns
    THEN LET parsed == [i \in 1..Len(gdf.rows) |->
                          [gdf.rows[i] EXCEPT !.date = to_datetime(gdf.rows[i].date)]]
         IN  [gdf EXCEPT !.rows = SelectSeq(parsed, LAMBDA r : YearGe(r.date, year))]
    ELSE gdf

\* Faulty variant of LoadLayer: the year filter sits in the else branch, so
\* that a cached frame is returned as it is.
LoadLayerTrustingCache(key, src, cache, bb, year) ==
    LET hit == cache.exists
        gdf == IF hit THEN cache.data
               ELSE YearFilter(key, read_file(src, bb), year)
    IN  [gdf |-> gdf,
         cache |-> IF hit THEN cache ELSE File(gdf),
         wrote |-> ~hit,
         hit |-> hit]

\* Lines 126-155: the body of the loop for one layer.
LoadLayer(key, src, cache, bb, year) ==
    LET hit == cache.exists
        read == IF hit THEN cache.data ELSE read_file(src, bb)
        gdf == YearFilter(key, read, year)
    IN  [gdf |-> gdf,
         cache |-> IF hit THEN cache ELSE File(gdf),
         wrote |-> ~hit,
         hit |-> hit]

\* Lines 110-157
load_filtered_logging(bb, year) ==
    /\ n_calls < MaxCalls
    /\ LET out == [key \in Layers |->
                     LoadLayer(key, layer_src[key], cache_layers[key], bb, year)]
       IN  /\ logging_data' = [key \in Layers |-> out[key].gdf]
           /\ cache_layers' = [key \in Layers |-> out[key].cache]
           /\ cache_writes' = [key \in Layers |->
                                 cache_writes[key] + IF out[key].wrote THEN 1 ELSE 0]
           /\ from_cache' = [key \in Layers |-> out[key].hit]
    /\ bbox' = bb
    /\ start_year' = year
    /\ n_calls' = n_calls + 1
    /\ pc' = "loaded"
    /\ UNCHANGED layer_src

\* The map directories SpecLog starts from: the two sources hold up to
\* MaxSrcRows features of the catalogue between them; no cache yet.
MapDirs ==
    { [key \in Layers |->
         Source(key, cols[key], {j \in 1..Len(FeatureCatalogue) : <<key, j>> \in T})] :
        cols \in [Layers -> BOOLEAN],
        T \in SubsetsUpTo(Layers \X (1..Len(FeatureCatalogue)), MaxSrcRows) }

IdleObs ==
    /\ obs_files = <<>> /\ cache_obs = NoFile /\ log = <<>> /\ n_read = 0

InitLog ==
    /\ pc = "start"
    /\ layer_src \in MapDirs
    /\ cache_layers = [key \in Layers |-> NoFile]
    /\ cache_writes = [key \in Layers |-> 0]
    /\ logging_data = [key \in Layers |-> EmptyFrame]
    /\ from_cache = [key \in Layers |-> FALSE]
    /\ bbox = <<0, 0, 0, 0>>
    /\ start_year = 0
    /\ n_calls = 0
    /\ gdf_obs = <<>>
    /\ IdleObs
    /\ IdleMatch

NextLog ==
    \E bb \in BBoxes, year \in StartYears :
        load_filtered_logging(bb, year) /\ UNCHANGED <<obsVars, gdf_obs, matchVars>>

SpecLog == InitLog /\ [][NextLog]_vars

(***************************************************************************)
(* run_spatial_analysis                                                    *)
(*                                                                         *)
(* An observation o is the point (o.Ost, 0); a polygon p is the rectangle  *)
(* [p.lo, p.hi] x [-1, 1].  The index of gdf_obs is the row's place in the *)
(* frame; the index of a polygon frame (index_right after the join) is     *)
(* the row's fid, which filtering keeps.                                   *)
(***************************************************************************)
ObsCoords == {0, 30, 60, 120, 150}

\* Polygons a layer handed to the matcher may hold.
ParcelCatalogue ==
    << [fid |-> 1, lo |-> 0,  hi |-> 60,  date |-> Timestamp(2019)],
       [fid |-> 2, lo |-> 0,  hi |-> 90,  date |-> Timestamp(2019)],
       [fid |-> 3, lo |-> 0,  hi |-> 150, date |-> Timestamp(2019)],
       [fid |-> 4, lo |-> 60, hi |-> 90,  date |-> Timestamp(2019)],
       [fid |-> 5, lo |-> 60, hi |-> 150, date |-> Timestamp(2019)],
       [fid |-> 6, lo |-> 90, hi |-> 150, date |-> Timestamp(2019)] >>

Observation(x, i) ==
    [Ost |-> x, Nord |-> 0, Noggrannhet |-> Num(10), Kalla |-> 1, row |-> i,
     geometry |-> <<x, 0>>]

\* predicate="within": the point lies in the interior of the polygon
Within(o, p) == p.lo < o.Ost /\ o.Ost < p.hi

Distance(o, p) ==
    IF o.Ost < p.lo THEN p.lo - o.Ost
    ELSE IF o.Ost > p.hi THEN o.Ost - p.hi
    ELSE 0

\* predicate="intersects" on the point buffered by 50 (line 179)
DiscIntersects(o, p) == Distance(o, p) <= BUFFER

Min(S) == CHOOSE x \in S : \A y \in S : x <= y
Max(S) == CHOOSE x \in S : \A y \in S : x >= y

\* Line 175: the convex hull of all points, buffered by 50
study_area_mask(obs) ==
    LET xs == {obs[i].Ost : i \in 1..Len(obs)}
    IN  [lo |-> Min(xs) - BUFFER, hi |-> Max(xs) + BUFFER]

\* Line 184: gdf_logging.intersects(study_area_mask)
IntersectsMask(p, mask) == p.lo <= mask.hi /\ p.hi >= mask.lo

\* The predicate argument of gpd.sjoin, lines 189 and 193.
Holds(predicate, o, p) ==
    IF predicate = "within" THEN Within(o, p) ELSE DiscIntersects(o, p)

\* gpd.sjoin(left, right, how="inner", predicate=...): one row per matching
\* pair, ordered by the left index and then by the right row.
sjoin(obs, polys, predicate, status) ==
    LET rowsOf(i) ==
          LET all == [j \in 1..Len(polys) |->
                        [idx |-> i, index_right |-> polys[j].fid,
                         Status_Analys |-> status,
                         hit |-> Holds(predicate, obs[i], polys[j])]]
              hits == SelectSeq(all, LAMBDA r : r.hit)
          IN  [a \in 1..Len(hits) |->
                 [idx |-> hits[a].idx, index_right |-> hits[a].index_right,
                  Status_Analys |-> hits[a].Status_Analys]]
    IN  Concat([i \in 1..Len(obs) |-> rowsOf(i)])

\* Faulty variant of concat: the near matches come first.
concat_near_first(in_zone, all_near) == all_near \o in_zone

\* Line 197: pd.concat([in_zone, all_near])
concat(in_zone, all_near) == in_zone \o all_near

RECURSIVE KeepFirst(_, _)
KeepFirst(rows, seen) ==
    IF rows = <<>> THEN <<>>
    ELSE IF Head(rows).idx \in seen THEN KeepFirst(Tail(rows), seen)
    ELSE <<Head(rows)>> \o KeepFirst(Tail(rows), seen \cup {Head(rows).idx})

RECURSIVE KeepFirstPair(_, _)
KeepFirstPair(rows, seen) ==
    IF rows = <<>> THEN <<>>
    ELSE LET pair == <<Head(rows).idx, Head(rows).index_right>>
         IN  IF pair \in seen THEN KeepFirstPair(Tail(rows), seen)
             ELSE <<Head(rows)>> \o KeepFirstPair(Tail(rows), seen \cup {pair})

\* Faulty variant of drop_duplicated_index: duplicates are dropped per
\* (observation, polygon) pair.
drop_duplicated_pair(rows) == KeepFirstPair(rows, {})

\* Line 198: combined[~combined.index.duplicated(keep='first')]
drop_duplicated_index(rows) == KeepFirst(rows, {})

\* Lines 184-204: the body of the loop for one layer.
AnalyseLayer(obs, gdf_logging) ==
    LET mask == study_area_mask(obs)
        relevant_logging ==
            SelectSeq(gdf_logging.rows, LAMBDA p : IntersectsMask(p, mask))
        in_zone == sjoin(obs, relevant_logging, "within", "Inuti")
        all_near == sjoin(obs, relevant_logging, "intersects", "Nara (50m)")
        combined == drop_duplicated_index(concat(in_zone, all_near))
    IN  [matches |-> combined, total_relevant_count |-> Len(relevant_logging)]

\* Lines 160-206
run_spatial_analysis ==
    /\ pc = "loaded"
    /\ results' = [key \in Layers |-> AnalyseLayer(gdf_obs, logging_data[key])]
    /\ pc' = "analysed"
    /\ UNCHANGED <<gdf_obs, logging_data, report, printed, output_file>>

(***************************************************************************)
(* describe_and_save                                                       *)
(***************************************************************************)
CountOf(rows, status) ==
    Cardinality({a \in 1..Len(rows) : rows[a].Status_Analys = status})

\* Line 263
all_affected_areas(res_df) == {res_df[a].index_right : a \in 1..Len(res_df)}

\* Line 264
areas_inuti_ids(res_df) ==
    {res_df[a].index_right : a \in {b \in 1..Len(res_df) :
                                       res_df[b].Status_Analys = "Inuti"}}

\* Lines 260-275: the statistics of one layer.  andel_omraden is the
\* quotient (num / den) * 100 of line 274, kept as the fraction num/den of
\* percent; the layer's block is printed only when den is not 0.
LayerStats(analysis_data) ==
    LET res_df == analysis_data.matches
    IN  [n_inuti |-> CountOf(res_df, "Inuti"),
         n_nara |-> CountOf(res_df, "Nara (50m)"),
         areas_inuti |-> Cardinality(areas_inuti_ids(res_df)),
         areas_nara_only |->
             Cardinality(all_affected_areas(res_df) \ areas_inuti_ids(res_df)),
         total_affected |-> Cardinality(all_affected_areas(res_df)),
         total_relevant |-> analysis_data.total_relevant_count,
         andel_omraden |->
             [num |-> 100 * Cardinality(all_affected_areas(res_df)),
              den |-> analysis_data.total_relevant_count]]

\* Line 274 raises ZeroDivisionError when total_relevant is 0.
Raises(analysis_data) == analysis_data.total_relevant_count = 0

\* Lines 278-279
all_affected_idx(res) ==
    UNION {{res[key].matches[a].idx : a \in 1..Len(res[key].matches)} :
              key \in Layers}

\* Lines 209-291: the layers are reported in the order utford, anmald; the
\* first layer whose division raises ends the run before the rollup and
\* the export.
describe_and_save ==
    /\ pc = "analysed"
    /\ LET failing == {k \in 1..Len(LayerOrder) : Raises(results[LayerOrder[k]])}
           done == IF failing = {} THEN Len(LayerOrder) ELSE Min(failing) - 1
           shown == {LayerOrder[k] : k \in 1..done}
       IN  /\ printed' = shown
           /\ report' = [layer |-> [key \in shown |-> LayerStats(results[key])],
                         sites |-> IF failing = {}
                                   THEN Cardinality(all_affected_idx(results))
                                   ELSE 0]
           /\ output_file' = (failing = {})
           /\ pc' = IF failing = {} THEN "reported" ELSE "crashed"
    /\ UNCHANGED <<gdf_obs, logging_data, results>>

\* What the loaders hand to the matcher: 1..MaxObs observations, and up to
\* MaxPolys polygons of the catalogue over the two layers.
ObsFrames ==
    UNION { { [i \in 1..n |-> Observation(xs[i], i)] : xs \in [1..n -> ObsCoords] } :
            n \in 1..MaxObs }

ParcelFrames ==
    { [key \in Layers |->
         [columns |-> {"geometry", date_col(key)},
          rows |-> Pick(ParcelCatalogue,
                        {j \in 1..Len(ParcelCatalogue) : <<key, j>> \in T})]] :
        T \in SubsetsUpTo(Layers \X (1..Len(ParcelCatalogue)), MaxPolys) }

InitMatch ==
    /\ pc = "loaded"
    /\ gdf_obs \in ObsFrames
    /\ logging_data \in ParcelFrames
    /\ results = <<>>
    /\ report = <<>>
    /\ printed = {}
    /\ output_file = FALSE
    /\ IdleObs
    /\ IdleLog

NextMatch ==
    \/ (run_spatial_analysis /\ UNCHANGED <<obsVars, logVars>>)
    \/ (describe_and_save /\ UNCHANGED <<obsVars, logVars>>)

SpecMatch == InitMatch /\ [][NextMatch]_vars

(***************************************************************************)
(* Properties of load_observations (checked under SpecObs)                 *)
(***************************************************************************)
Said(msg) == msg \in Range(log)

\* Row i of file k is a row of the returned frame.
Kept(k, i) == \E j \in 1..Len(gdf_obs) : gdf_obs[j].Kalla = k /\ gdf_obs[j].row = i

\* The accuracy of row i of file k after coercion; missing (NaN) when the
\* cell is empty or not numeric, or the file has no such column.
Accuracy(k, i) ==
    IF obs_files[k].has_Noggrannhet
    THEN to_numeric(obs_files[k].rows[i].Noggrannhet)
    ELSE NaN

HasCoordinates(k, i) ==
    /\ to_numeric(obs_files[k].rows[i].Ost) # NaN
    /\ to_numeric(obs_files[k].rows[i].Nord) # NaN

Parsed == pc = "returned" /\ Said("Inlasning")

\* C1: on the no-cache path every raw row with coordinates is dropped when
\* its accuracy is present and above 50, and is retained when its accuracy
\* is missing.
C1_MissingAccuracyRetained ==
    Parsed =>
      \A k \in 1..Len(obs_files) : \A i \in 1..Len(obs_files[k].rows) :
        HasCoordinates(k, i) =>
          /\ (Accuracy(k, i) # NaN /\ Accuracy(k, i).v > NOGGRANNHET_MAX) => ~Kept(k, i)
          /\ Accuracy(k, i) = NaN => Kept(k, i)

\* C8: load_observations is gated by the existence of the cache alone: an
\* existing cache is returned as it is, no input file read and the cache
\* not written; with no cache and no input file the process ends, nothing
\* returned and no cache created.
C8_CacheGate ==
    [][ /\ (pc = "start" /\ cache_obs.exists) =>
             /\ pc' = "returned"
             /\ gdf_obs' = cache_obs.data
             /\ n_read' = n_read
             /\ cache_obs' = cache_obs
        /\ (pc = "start" /\ ~cache_obs.exists /\ obs_files = <<>>) =>
             /\ pc' = "exited"
             /\ gdf_obs' = gdf_obs
             /\ n_read' = n_read
             /\ cache_obs' = cache_obs ]_vars

\* A stale cache was returned although input files giving other rows exist.
C8_Witness ==
    /\ pc = "returned"
    /\ Said("Cache")
    /\ obs_files # <<>>
    /\ gdf_obs # BuildObservations(obs_files)
    /\ n_read = 0

\* C10: on the no-cache path with input files, a failed cache write is not
\* fatal: the function returns the frame parsed from the files, the same
\* frame it returns when the write succeeds.
C10_WriteFailureNotFatal ==
    (Said("Varning") \/ Said("Cache skapad")) =>
      /\ pc = "returned"
      /\ gdf_obs = BuildObservations(obs_files)
      /\ cache_obs.exists = Said("Cache skapad")

\* The write failed and a non-empty frame was returned all the same.
C10_Witness ==
    /\ Said("Varning")
    /\ pc = "returned"
    /\ gdf_obs # <<>>
    /\ ~cache_obs.exists

(***************************************************************************)
(* Properties of load_filtered_logging (checked under SpecLog)             *)
(***************************************************************************)
Fids(rows) == {rows[i].fid : i \in 1..Len(rows)}

\* C2 as claimed: with an existing cache the frame returned for a layer is
\* the cached frame exactly, whatever bbox and start_year are, and the
\* cache file is not rewritten.
C2_CachedReturnedAsIs ==
    \A key \in Layers :
      from_cache[key] =>
        /\ logging_data[key] = cache_layers[key].data
        /\ cache_writes[key] = 1

\* C2 as amended: with an existing cache the frame returned for a layer is
\* the cached frame restricted to the rows whose year is at least
\* start_year (all cached rows when the frame has no date column),
\* whatever bbox is, and the cache file is not rewritten.
C2_CachedYearFiltered ==
    \A key \in Layers :
      from_cache[key] =>
        LET cached == cache_layers[key].data
            dated == date_col(key) \in cached.columns
            keep(r) == dated => (r.date.t = "ts" /\ r.date.v >= start_year)
        IN  /\ logging_data[key].columns = cached.columns
            /\ logging_data[key].rows = SelectSeq(cached.rows, keep)
            /\ cache_writes[key] = 1

\* A call found a cache holding a feature of an earlier year and one
\* outside the bbox passed: the first is dropped, the second returned.
C2_Witness ==
    \E key \in Layers :
      /\ from_cache[key]
      /\ Len(logging_data[key].rows) < Len(cache_layers[key].data.rows)
      /\ \E i \in 1..Len(logging_data[key].rows) :
           ~IntersectsBox(logging_data[key].rows[i], bbox)

\* The rows of the source of layer key inside the last bbox.
InBox(key) ==
    {i \in 1..Len(layer_src[key].rows) : IntersectsBox(layer_src[key].rows[i], bbox)}

Fresh(key) == n_calls > 0 /\ ~from_cache[key]

\* C9 as claimed: on the no-cache path every row returned has a parseable
\* date of a year >= start_year, the rows of an earlier year or without a
\* parseable date are excluded, and the new cache holds the frame returned.
C9_EveryRowDated ==
    \A key \in Layers :
      Fresh(key) =>
        /\ \A i \in 1..Len(logging_data[key].rows) :
             /\ logging_data[key].rows[i].date.t = "ts"
             /\ logging_data[key].rows[i].date.v >= start_year
        /\ \A i \in InBox(key) :
             LET d == layer_src[key].rows[i].date
             IN  (d.t # "datetext" \/ d.v < start_year) =>
                   layer_src[key].rows[i].fid \notin Fids(logging_data[key].rows)
        /\ cache_layers[key] = File(logging_data[key])

\* C9 as amended: the claim holds of a layer whose source has the layer's
\* date column; of a layer without it, all rows inside the bbox are
\* returned.  Either way the new cache holds the frame returned.
C9_DatedWhenColumnPresent ==
    \A key \in Layers :
      Fresh(key) =>
        LET src == layer_src[key]
            out == logging_data[key].rows
            wanted == IF date_col(key) \in src.columns
                      THEN {i \in InBox(key) : /\ src.rows[i].date.t = "datetext"
                                               /\ src.rows[i].date.v >= start_year}
                      ELSE InBox(key)
        IN  /\ Fids(out) = {src.rows[i].fid : i \in wanted}
            /\ Len(out) = Cardinality(wanted)
            /\ date_col(key) \in src.columns =>
                 \A i \in 1..Len(out) :
                   out[i].date.t = "ts" /\ out[i].date.v >= start_year
            /\ cache_layers[key] = File(logging_data[key])
            /\ cache_writes[key] = 1

\* A fresh load kept a feature of the start year and dropped another one
\* inside the bbox.
C9_Witness ==
    \E key \in Layers :
      /\ Fresh(key)
      /\ date_col(key) \in layer_src[key].columns
      /\ \E i \in 1..Len(logging_data[key].rows) :
           logging_data[key].rows[i].date.v = start_year
      /\ Len(logging_data[key].rows) < Cardinality(InBox(key))

(***************************************************************************)
(* Properties of run_spatial_analysis and describe_and_save (checked       *)
(* under SpecMatch)                                                        *)
(***************************************************************************)
Analysed == pc \in {"analysed", "reported", "crashed"}
Described == pc \in {"reported", "crashed"}

\* The polygon of layer key with index fid.
Parcel(key, fid) ==
    CHOOSE p \in Range(logging_data[key].rows) : p.fid = fid

\* The polygons of layer key that intersect the study extent.
Relevant(key) ==
    {p \in Range(logging_data[key].rows) :
        IntersectsMask(p, study_area_mask(gdf_obs))}

\* C3: a match record is Inside whenever the observation's point lies
\* within the polygon, Near only when the observation's 50-unit disc
\* intersects the polygon and the point does not lie within it; no
\* (observation, polygon) pair has two records.
C3_StatusOfRecord ==
    Analysed =>
      \A key \in Layers :
        LET m == results[key].matches
        IN  \A a \in 1..Len(m) :
              LET o == gdf_obs[m[a].idx]
                  p == Parcel(key, m[a].index_right)
              IN  /\ m[a].Status_Analys \in {"Inuti", "Nara (50m)"}
                  /\ Within(o, p) => m[a].Status_Analys = "Inuti"
                  /\ m[a].Status_Analys = "Nara (50m)" =>
                       DiscIntersects(o, p) /\ ~Within(o, p)
                  /\ \A b \in 1..Len(m) :
                       (m[b].idx = m[a].idx /\ m[b].index_right = m[a].index_right)
                         => b = a

\* Some layer has a record of each status.
C3_Witness ==
    /\ Analysed
    /\ \E key \in Layers :
         LET m == results[key].matches
         IN  \E a, b \in 1..Len(m) :
               /\ m[a].Status_Analys = "Inuti"
               /\ m[b].Status_Analys = "Nara (50m)"

\* The first row of layer key, in frame order, among the polygons S.
FirstOf(key, S) ==
    LET rows == logging_data[key].rows
    IN  rows[Min({j \in 1..Len(rows) : rows[j] \in S})]

\* C4: the merge keeps the first row per observation, Inside rows before
\* Near rows: an observation has at most one record, exactly one iff its
\* disc intersects a relevant polygon; the record pairs it with the first
\* polygon it lies within, as Inside, if there is one, and else with the
\* first polygon its disc intersects, as Near.
C4_FirstSeenPerObservation ==
    Analysed =>
      \A key \in Layers :
        LET m == results[key].matches
        IN  /\ \A a, b \in 1..Len(m) :
                 (a < b) => ~(m[a].Status_Analys = "Nara (50m)"
                              /\ m[b].Status_Analys = "Inuti")
            /\ \A i \in 1..Len(gdf_obs) :
                 LET recs == {a \in 1..Len(m) : m[a].idx = i}
                     inside == {p \in Relevant(key) : Within(gdf_obs[i], p)}
                     near == {p \in Relevant(key) : DiscIntersects(gdf_obs[i], p)}
                 IN  /\ Cardinality(recs) <= 1
                     /\ (Cardinality(recs) = 1) <=> (near # {})
                     /\ \A a \in recs :
                          IF inside # {}
                          THEN /\ m[a].Status_Analys = "Inuti"
                               /\ m[a].index_right = FirstOf(key, inside).fid
                          ELSE /\ m[a].Status_Analys = "Nara (50m)"
                               /\ m[a].index_right = FirstOf(key, near).fid

\* An observation lies within one relevant polygon and near another one
\* of the same layer, and has a single record.
C4_Witness ==
    /\ Analysed
    /\ \E key \in Layers : \E i \in 1..Len(gdf_obs) :
         /\ \E p, q \in Relevant(key) :
              /\ p # q
              /\ Within(gdf_obs[i], p)
              /\ DiscIntersects(gdf_obs[i], q)
         /\ Cardinality({a \in 1..Len(results[key].matches) :
                            results[key].matches[a].idx = i}) = 1

\* C5: a layer without relevant polygons has no matches and the count 0,
\* and describe_and_save reports 0 percent for it and completes the
\* report and the export.
C5_ZeroRelevantGuarded ==
    Described =>
      \A key \in Layers :
        results[key].total_relevant_count = 0 =>
          /\ results[key].matches = <<>>
          /\ pc = "reported"
          /\ output_file
          /\ key \in printed
          /\ report.layer[key].andel_omraden.num = 0

\* The polygons of layer key matched by some observation: its point lies
\* within the polygon or its disc intersects it.
Matched(key) ==
    {p \in Relevant(key) : \E i \in 1..Len(gdf_obs) : DiscIntersects(gdf_obs[i], p)}

\* C6: in a completed report, the percentage of a layer with relevant
\* polygons is the number of distinct polygons in the records over the
\* relevant count, times 100; it is at most 100, and is 100 whenever every
\* relevant polygon is matched by some observation.
C6_CoverageFull ==
    pc = "reported" =>
      \A key \in printed :
        LET st == report.layer[key]
        IN  results[key].total_relevant_count # 0 =>
              /\ st.andel_omraden.num =
                    100 * Cardinality(all_affected_areas(results[key].matches))
              /\ st.andel_omraden.den = results[key].total_relevant_count
              /\ st.andel_omraden.num <= 100 * st.andel_omraden.den
              /\ (Matched(key) = Relevant(key)) =>
                    st.andel_omraden.num = 100 * st.andel_omraden.den

\* C7: in a completed report, the Near-only count of a layer counts no
\* polygon that contains the point of some observation, and the Inside
\* count plus the Near-only count is the number of distinct affected
\* polygons.
C7_NearOnlyHasNoInside ==
    pc = "reported" =>
      \A key \in printed :
        LET m == results[key].matches
            near_only == all_affected_areas(m) \ areas_inuti_ids(m)
            st == report.layer[key]
        IN  /\ st.areas_nara_only = Cardinality(near_only)
            /\ \A fid \in near_only :
                 ~\E i \in 1..Len(gdf_obs) : Within(gdf_obs[i], Parcel(key, fid))
            /\ st.areas_inuti + st.areas_nara_only = st.total_affected

====
